---- MODULE Spec2Model ----
(***************************************************************************)
(* Model of the stack-sizes library (src/src/lib.rs): the analysis of an   *)
(* executable (process_symtab_exec, analyze_executable), the analysis of   *)
(* a relocatable object (process_symtab_obj, analyze_object) and the       *)
(* command-line driver `run`.                                              *)
(*                                                                         *)
(* An ELF file is modelled by the parts the code reads: its type, its      *)
(* class, the rows of `.symtab`, and its sections in section order.  The   *)
(* bytes of `.stack_sizes` are kept as bytes: the decoder is modelled on   *)
(* them.  Names are sequences of one-character strings, so that is_tag     *)
(* is computed on the characters.                                          *)
(***************************************************************************)
EXTENDS Integers, Sequences, FiniteSets, TLC

VARIABLES
    elf,                    \* the input file (never changes during a run)
    caller,                 \* "run" or the library function called directly
    pc,                     \* position in the code
    i,                      \* index of the next `.symtab` row / relocation
    have_32_bit_addresses,  \* lib.rs:276
    undefined,              \* lib.rs:227
    defined,                \* lib.rs:225, address -> Function
    maybe_aliases,          \* lib.rs:226, value -> names
    cursor,                 \* Cursor position in `.stack_sizes`
    ret,                    \* what analyze_* returned
    run_ret,                \* what run returned
    stdout,                 \* the rows run printed
    is_64_bit,              \* lib.rs:127
    shndx2names,            \* lib.rs:84, shndx -> (address -> set of names)
    symtab2shndx,           \* lib.rs:85, symbol index -> shndx
    sizes,                  \* lib.rs:143, name -> stack
    sect,                   \* index of the next section of the section iterator
    relocs,                 \* lib.rs:151, the symbol indices of the relocations
    pass,                   \* which of the two analyses of the same input runs
    first_ret,              \* what the first analysis returned
    first_sizes             \* the table the first analysis built

vars == <<elf, caller, pc, i, have_32_bit_addresses, undefined, defined,
          maybe_aliases, cursor, ret, run_ret, stdout, is_64_bit, shndx2names,
          symtab2shndx, sizes, sect, relocs, pass, first_ret, first_sizes>>

execVars == <<have_32_bit_addresses, undefined, defined, maybe_aliases>>
objVars == <<is_64_bit, shndx2names, symtab2shndx, sizes, sect, relocs>>
passVars == <<pass, first_ret, first_sizes>>

----------------------------------------------------------------------------
(* Bounds of the model *)

MaxFuncs == 2       \* rows of `.symtab` where the records are varied
MaxSyms == 3        \* rows of `.symtab` where the symbols are varied
MaxRecs == 2        \* records encoded into `.stack_sizes`
MaxCut == 3         \* bytes cut from the end of `.stack_sizes`
MaxObjSyms == 2     \* rows of `.symtab` of an object file
MaxObjRecs == 2     \* records encoded into `.stack_sizes` of an object file
MaxRelocs == 2      \* entries of the relocation section

----------------------------------------------------------------------------
(* Values *)

None == <<>>                \* Option::None
Some(v) == <<v>>            \* Option::Some(v)

EmptyMap == <<>>            \* an empty BTreeMap / HashMap (no keys)

Min(S) == CHOOSE x \in S : \A y \in S : x <= y

SeqsUpTo(S, n) == UNION { [1..k -> S] : k \in 0..n }

\* The keys of a BTreeMap in iteration order.
RECURSIVE SortedKeys(_)
SortedKeys(S) ==
    IF S = {} THEN <<>> ELSE <<Min(S)>> \o SortedKeys(S \ {Min(S)})

\* value | 1 and value & !1 on u64
SetThumbBit(a) == IF a % 2 = 0 THEN a + 1 ELSE a
ClearThumbBit(a) == a - (a % 2)

----------------------------------------------------------------------------
(* is_tag, lib.rs:65 *)

DigitChars == <<"0", "1", "2", "3", "4", "5", "6", "7", "8", "9">>
Digits == { DigitChars[k] : k \in 1..10 }
DigitVal(c) == (CHOOSE k \in 1..10 : DigitChars[k] = c) - 1

\* u64::MAX written in decimal
U64MaxDigits == <<"1","8","4","4","6","7","4","4","0","7","3","7","0","9",
                  "5","5","1","6","1","5">>

RECURSIVE StripZeros(_)
StripZeros(s) ==
    IF Len(s) > 0 /\ s[1] = "0" THEN StripZeros(Tail(s)) ELSE s

RECURSIVE LexLeq(_, _)
LexLeq(a, b) ==
    IF a = <<>> THEN TRUE
    ELSE IF DigitVal(a[1]) # DigitVal(b[1]) THEN DigitVal(a[1]) < DigitVal(b[1])
    ELSE LexLeq(Tail(a), Tail(b))

FitsU64(d) ==
    LET t == StripZeros(d)
    IN  Len(t) < Len(U64MaxDigits)
        \/ (Len(t) = Len(U64MaxDigits) /\ LexLeq(t, U64MaxDigits))

\* str::parse::<u64>().is_ok(): an optional '+', then one or more decimal
\* digits whose value fits in 64 bits
ParseU64IsOk(s) ==
    LET d == IF Len(s) > 0 /\ s[1] = "+" THEN Tail(s) ELSE s
    IN  /\ Len(d) > 0
        /\ \A k \in 1..Len(d) : d[k] \in Digits
        /\ FitsU64(d)

StartsWith(s, p) == Len(s) >= Len(p) /\ SubSeq(s, 1, Len(p)) = p

\* name.splitn(2, '.').nth(1).unwrap(): what follows the first '.'
AfterFirstDot(s) ==
    LET k == Min({ j \in 1..Len(s) : s[j] = "." })
    IN  SubSeq(s, k + 1, Len(s))

TagLetters == {"a", "d", "t"}

is_tag(name) ==
    \/ \E c \in TagLetters : name = <<"$", c>>
    \/ /\ \E c \in TagLetters : StartsWith(name, <<"$", c, ".">>)
       /\ ParseU64IsOk(AfterFirstDot(name))

----------------------------------------------------------------------------
(* Results *)

Pending == "pending"
Ok == "Ok"
ErrEof == "Err(failed to fill whole buffer)"                  \* io::Error, `?`
ErrLeb == "Err(leb128 overflow)"                              \* leb128 `?`
ErrNoUsageExec == "Err(this executable contains no stack usage information)"
ErrNoUsageObj == "Err(this object file contains no stack usage information)"
ErrNotRelocatable == "Err(object file is not relocatable)"
ErrNoSymtab == "Err(.symtab section not found)"
ErrNoRelocs == "Err(expected a section with relocation information after .stack_sizes)"
ErrCount == "Err(the number of relocations does not match the number of .stack_sizes entries)"
PanicUnreachable == "panic(unreachable)"                      \* lib.rs:311
PanicLeb == "panic(unwrap on leb128 error)"                   \* lib.rs:184
PanicIndex == "panic(symtab2shndx: no entry for key)"         \* lib.rs:186
PanicSection == "panic(section header not found)"             \* lib.rs:189
PanicSymbol == "panic(symbol with address not found)"         \* lib.rs:195
PanicAssert == "panic(assertion failed: insert is_none)"      \* lib.rs:191

Errors == {ErrEof, ErrLeb, ErrNoUsageExec, ErrNoUsageObj, ErrNotRelocatable,
           ErrNoSymtab, ErrNoRelocs, ErrCount}
Panics == {PanicUnreachable, PanicLeb, PanicIndex, PanicSection, PanicSymbol,
           PanicAssert}

IsErr(r) == r \in Errors
IsPanic(r) == r \in Panics

----------------------------------------------------------------------------
(* The bytes of `.stack_sizes` *)

ByteRadix == 256
ContinuationBit == 128      \* leb128::CONTINUATION_BIT

AddrWidth(is32) == IF is32 THEN 4 ELSE 8

RECURSIVE Pow(_, _)
Pow(b, n) == IF n = 0 THEN 1 ELSE b * Pow(b, n - 1)

\* The compiler's side: a little-endian address of `width` bytes
RECURSIVE EncodeLE(_, _)
EncodeLE(v, width) ==
    IF width = 0 THEN <<>>
    ELSE <<v % ByteRadix>> \o EncodeLE(v \div ByteRadix, width - 1)

\* The compiler's side: an unsigned LEB128 number
RECURSIVE EncodeLeb(_)
EncodeLeb(v) ==
    IF v < ContinuationBit THEN <<v>>
    ELSE <<ContinuationBit + (v % ContinuationBit)>> \o EncodeLeb(v \div ContinuationBit)

RECURSIVE EncodeRecords(_, _)
EncodeRecords(recs, width) ==
    IF recs = <<>> THEN <<>>
    ELSE EncodeLE(Head(recs).address, width) \o EncodeLeb(Head(recs).stack)
         \o EncodeRecords(Tail(recs), width)

\* Every address of the model's symbols is below AddrLimit; an address read
\* from the bytes that is AddrLimit or more is kept as AddrLimit: with or
\* without its low bit it is the key of no function.
AddrLimit == ByteRadix

\* cursor.read_u32::<LE>() / cursor.read_u64::<LE>(): the value of `width`
\* bytes at `pos`, or an error when fewer are left
ReadAddress(data, pos, width) ==
    IF pos + width > Len(data)
    THEN [ok |-> FALSE, val |-> 0, pos |-> pos]
    ELSE [ok |-> TRUE,
          val |-> IF \A k \in 2..width : data[pos + k] = 0
                  THEN data[pos + 1] ELSE AddrLimit,
          pos |-> pos + width]

\* leb128::read::unsigned at shift 63, on a byte other than 0 and 1: the
\* bytes are read on up to the first one without the continuation bit, then
\* the error is "overflow"; it is "eof" when the bytes end first
RECURSIVE Leb128Overflow(_, _)
Leb128Overflow(data, pos) ==
    IF data[pos] < ContinuationBit
    THEN [ok |-> FALSE, err |-> "overflow", val |-> 0, pos |-> pos]
    ELSE IF pos >= Len(data)
    THEN [ok |-> FALSE, err |-> "eof", val |-> 0, pos |-> pos]
    ELSE Leb128Overflow(data, pos + 1)

\* leb128::read::unsigned: bytes are read up to the first one without the
\* continuation bit; err is "eof" when the bytes end first and "overflow"
\* when the number does not fit in 64 bits.
RECURSIVE Leb128Read(_, _, _, _)
Leb128Read(data, pos, shift, result) ==
    IF pos >= Len(data)
    THEN [ok |-> FALSE, err |-> "eof", val |-> 0, pos |-> pos]
    ELSE LET byte == data[pos + 1]
         IN  IF shift = 63 /\ byte # 0 /\ byte # 1
             THEN Leb128Overflow(data, pos + 1)
             ELSE LET r == result + (byte % ContinuationBit) * Pow(2, shift)
                  IN  IF byte < ContinuationBit
                      THEN [ok |-> TRUE, err |-> "", val |-> r, pos |-> pos + 1]
                      ELSE Leb128Read(data, pos + 1, shift + 7, r)

----------------------------------------------------------------------------
(* The input *)

Func == "Func"
NoType == "NoType"
Object == "Object"

Sym(ty, value, size, name, shndx) ==
    [ty |-> ty, value |-> value, size |-> size, name |-> name, shndx |-> shndx]

StackSizesName == ".stack_sizes"

Section(name, kind, data, rels) ==
    [name |-> name, kind |-> kind, data |-> data, rels |-> rels]

\* elf.find_section_by_name(".stack_sizes"): the first section of that name
FindStackSizes(sections) ==
    LET hits == { k \in 1..Len(sections) : sections[k].name = StackSizesName }
    IN  IF hits = {} THEN None ELSE Some(sections[Min(hits)])

\* Symbols of the executables whose records are varied
ExecFuncs ==
    { Sym(Func, 2, 4, <<"f">>, 1),
      Sym(Func, 3, 2, <<"g">>, 1),
      Sym(Func, 4, 8, <<"h">>, 1),
      Sym(NoType, 2, 0, <<"a">>, 1) }

\* Symbols of the executables whose symbol table is varied
ExecSymbols ==
    { Sym(Func, 2, 4, <<"f">>, 1),
      Sym(Func, 2, 6, <<"g">>, 1),
      Sym(Func, 3, 2, <<"g">>, 1),
      Sym(Func, 0, 0, <<"u">>, 0),
      Sym(Func, 0, 8, <<"z">>, 1),
      Sym(NoType, 2, 0, <<"a">>, 1),
      Sym(NoType, 2, 0, <<"$", "d", ".", "3">>, 1),
      Sym(NoType, 3, 0, <<"$", "t">>, 1),
      Sym(NoType, 3, 0, <<"$", "a", ".">>, 1),
      Sym(Object, 2, 4, <<"o">>, 2) }

\* Records of an executable: at both addresses of the pair {2, 3} and at 4,
\* with a stack of one LEB128 byte (0) or of two (200)
Records == [address : {2, 3, 4}, stack : {0, 200}]

\* The first Len(s) - cut bytes of s
CutEnd(s, cut) == SubSeq(s, 1, Len(s) - cut)

\* `.stack_sizes` of an executable: records as the compiler encodes them,
\* possibly cut short
StackSizesSections(is32, recseqs) ==
    { Section(StackSizesName, "Other", CutEnd(EncodeRecords(rs, AddrWidth(is32)), cut), <<>>) :
        <<rs, cut>> \in { rc \in recseqs \X (0..MaxCut) :
                              rc[2] <= Len(EncodeRecords(rc[1], AddrWidth(is32))) } }

Elf(type, is32, has_symtab, symtab, sections) ==
    [type |-> type, is32 |-> is32, has_symtab |-> has_symtab,
     symtab |-> symtab, sections |-> sections]

Relocatable == "Relocatable"
Executable == "Executable"

\* The sections of an executable: none, or a `.stack_sizes` section
ExecSections(is32, recseqs) ==
    {<<>>} \cup { <<x>> : x \in StackSizesSections(is32, recseqs) }

\* Executables with few symbols and any records, and executables without a
\* `.symtab` section
IsExecElf(e) ==
    \E is32 \in BOOLEAN :
        \/ \E st \in SeqsUpTo(ExecFuncs, MaxFuncs) :
              \E ss \in ExecSections(is32, SeqsUpTo(Records, MaxRecs)) :
                 e = Elf(Executable, is32, TRUE, st, ss)
        \/ \E ss \in ExecSections(is32, SeqsUpTo(Records, 1)) :
              e = Elf(Executable, is32, FALSE, <<>>, ss)

----------------------------------------------------------------------------
(* process_symtab_exec, lib.rs:218 *)

Function(names, size, stack) == [names |-> names, size |-> size, stack |-> stack]

\* A Func symbol taken as undefined on its value alone
IsUndefinedByValue(e) == e.value = 0

\* lib.rs:238
IsUndefinedFunc(e) == e.value = 0 /\ e.size = 0

\* An insertion that takes the size of the latest Func symbol at the value
PushDefinedLastSize(d, e) ==
    IF e.value \in DOMAIN d
    THEN [d EXCEPT ![e.value].names = Append(@, e.name), ![e.value].size = e.size]
    ELSE d @@ (e.value :> Function(<<e.name>>, e.size, None))

\* lib.rs:241, defined.entry(value).or_insert(..).names.push(name)
PushDefined(d, e) ==
    IF e.value \in DOMAIN d
    THEN [d EXCEPT ![e.value].names = Append(@, e.name)]
    ELSE d @@ (e.value :> Function(<<e.name>>, e.size, None))

\* lib.rs:254, maybe_aliases.entry(value).or_insert(vec![]).push(name)
PushAlias(m, e) ==
    IF e.value \in DOMAIN m
    THEN [m EXCEPT ![e.value] = Append(@, e.name)]
    ELSE m @@ (e.value :> <<e.name>>)

\* lib.rs:262, the key of `defined` an alias group at `value` is merged into
AliasTarget(d, value) ==
    IF SetThumbBit(value) \in DOMAIN d THEN Some(SetThumbBit(value))
    ELSE IF ClearThumbBit(value) \in DOMAIN d THEN Some(ClearThumbBit(value))
    ELSE None

\* A merge that puts the aliases before the names the function has
MergeAliasesFront(d, value, alias) ==
    LET t == AliasTarget(d, value)
    IN  IF t = None THEN d
        ELSE [d EXCEPT ![t[1]].names = alias \o @]

\* lib.rs:260, one iteration of the loop over maybe_aliases
MergeAliases(d, value, alias) ==
    LET t == AliasTarget(d, value)
    IN  IF t = None THEN d
        ELSE [d EXCEPT ![t[1]].names = @ \o alias]

\* A map without one of its keys
Without(m, k) == [x \in (DOMAIN m) \ {k} |-> m[x]]

\* A lookup of the record's address as it is, the low bit left alone
RecordTargetExact(d, address) ==
    IF address \in DOMAIN d THEN Some(address) ELSE None

\* lib.rs:306, the key of `defined` a record at `address` sets the stack of
RecordTarget(d, address) ==
    IF SetThumbBit(address) \in DOMAIN d THEN Some(SetThumbBit(address))
    ELSE IF ClearThumbBit(address) \in DOMAIN d THEN Some(ClearThumbBit(address))
    ELSE None

\* Entry of analyze_executable, lib.rs:273: the symbol table is found or not
ExecEnter ==
    /\ pc = "analyze_executable"
    /\ IF elf.has_symtab
       THEN /\ have_32_bit_addresses' = elf.is32
            /\ pc' = "symtab"
       ELSE /\ have_32_bit_addresses' = FALSE
            /\ pc' = "stack_sizes"
    /\ i' = 1
    /\ undefined' = {}
    /\ defined' = EmptyMap
    /\ maybe_aliases' = EmptyMap
    /\ UNCHANGED <<elf, caller, cursor, ret, run_ret, stdout, objVars, passVars>>

\* One iteration of the loop of lib.rs:229
ExecSymbol ==
    /\ pc = "symtab"
    /\ i <= Len(elf.symtab)
    /\ LET e == elf.symtab[i]
       IN  IF e.ty = Func
           THEN IF IsUndefinedFunc(e)
                THEN /\ undefined' = undefined \cup {e.name}
                     /\ UNCHANGED <<defined, maybe_aliases>>
                ELSE /\ defined' = PushDefined(defined, e)
                     /\ UNCHANGED <<undefined, maybe_aliases>>
           ELSE IF e.ty = NoType /\ ~is_tag(e.name)
                THEN /\ maybe_aliases' = PushAlias(maybe_aliases, e)
                     /\ UNCHANGED <<undefined, defined>>
                ELSE UNCHANGED <<undefined, defined, maybe_aliases>>
    /\ i' = i + 1
    /\ UNCHANGED <<elf, caller, pc, have_32_bit_addresses, cursor, ret, run_ret,
                   stdout, objVars, passVars>>

\* The loop of lib.rs:229 ends
ExecSymbolsDone ==
    /\ pc = "symtab"
    /\ i > Len(elf.symtab)
    /\ pc' = "aliases"
    /\ UNCHANGED <<elf, caller, i, execVars, cursor, ret, run_ret, stdout,
                   objVars, passVars>>

\* One iteration of the loop of lib.rs:260, in key order
ExecAlias ==
    /\ pc = "aliases"
    /\ DOMAIN maybe_aliases # {}
    /\ LET value == Min(DOMAIN maybe_aliases)
       IN  /\ defined' = MergeAliases(defined, value, maybe_aliases[value])
           /\ maybe_aliases' = Without(maybe_aliases, value)
    /\ UNCHANGED <<elf, caller, pc, i, have_32_bit_addresses, undefined, cursor,
                   ret, run_ret, stdout, objVars, passVars>>

\* The loop of lib.rs:260 ends; process_symtab_exec returns
ExecAliasesDone ==
    /\ pc = "aliases"
    /\ DOMAIN maybe_aliases = {}
    /\ pc' = "stack_sizes"
    /\ UNCHANGED <<elf, caller, i, execVars, cursor, ret, run_ret, stdout,
                   objVars, passVars>>

\* lib.rs:292: without the section the analysis is over (lib.rs:316)
ExecFindStackSizes ==
    /\ pc = "stack_sizes"
    /\ IF FindStackSizes(elf.sections) = None
       THEN /\ ret' = Ok
            /\ pc' = "returned"
       ELSE /\ ret' = ret
            /\ pc' = "decode"
    /\ cursor' = 0
    /\ UNCHANGED <<elf, caller, i, execVars, run_ret, stdout, objVars, passVars>>

\* One iteration of the loop of lib.rs:297
ExecRecord ==
    /\ pc = "decode"
    /\ LET data == FindStackSizes(elf.sections)[1].data
           a == ReadAddress(data, cursor, AddrWidth(have_32_bit_addresses))
           s == Leb128Read(data, a.pos, 0, 0)
           t == RecordTarget(defined, a.val)
       IN  /\ cursor < Len(data)
           /\ IF ~a.ok
              THEN /\ ret' = ErrEof
                   /\ pc' = "returned"
                   /\ UNCHANGED <<cursor, defined>>
              ELSE IF ~s.ok
              THEN /\ ret' = IF s.err = "eof" THEN ErrEof ELSE ErrLeb
                   /\ pc' = "returned"
                   /\ cursor' = s.pos
                   /\ UNCHANGED defined
              ELSE IF t = None
              THEN /\ ret' = PanicUnreachable
                   /\ pc' = "returned"
                   /\ cursor' = s.pos
                   /\ UNCHANGED defined
              ELSE /\ defined' = [defined EXCEPT ![t[1]].stack = Some(s.val)]
                   /\ cursor' = s.pos
                   /\ UNCHANGED <<ret, pc>>
    /\ UNCHANGED <<elf, caller, i, have_32_bit_addresses, undefined,
                   maybe_aliases, run_ret, stdout, objVars, passVars>>

\* The loop of lib.rs:297 ends; lib.rs:316
ExecRecordsDone ==
    /\ pc = "decode"
    /\ cursor >= Len(FindStackSizes(elf.sections)[1].data)
    /\ ret' = Ok
    /\ pc' = "returned"
    /\ UNCHANGED <<elf, caller, i, execVars, cursor, run_ret, stdout, objVars,
                   passVars>>

----------------------------------------------------------------------------
(* run, lib.rs:379, on a file that is not relocatable *)

\* lib.rs:383
RunExecutable ==
    /\ pc = "run"
    /\ elf.type # Relocatable
    /\ pc' = "analyze_executable"
    /\ UNCHANGED <<elf, caller, i, execVars, cursor, ret, run_ret, stdout,
                   objVars, passVars>>

\* A check that takes a stack value of 0 for no stack value
NoUsageOrZero(d) == \A a \in DOMAIN d : d[a].stack = None \/ d[a].stack = Some(0)

\* lib.rs:399
NoUsageExec(d) == \A a \in DOMAIN d : d[a].stack = None

\* lib.rs:412 and lib.rs:426: the row of a function, if it has a name and a
\* stack value; the name of a row is the one handed to rustc_demangle::demangle
PrintRow(d, a) ==
    IF d[a].names # <<>> /\ d[a].stack # None
    THEN << [addr |-> a, stack |-> d[a].stack[1], name |-> d[a].names[1]] >>
    ELSE <<>>

\* The rows printed from the last key to the first
RECURSIVE PrintRowsBackwards(_, _)
PrintRowsBackwards(d, keys) ==
    IF keys = <<>> THEN <<>>
    ELSE PrintRowsBackwards(d, Tail(keys)) \o PrintRow(d, Head(keys))

\* lib.rs:411 and lib.rs:425: the rows printed, in the order of the map
RECURSIVE PrintRows(_, _)
PrintRows(d, keys) ==
    IF keys = <<>> THEN <<>>
    ELSE PrintRow(d, Head(keys)) \o PrintRows(d, Tail(keys))

\* lib.rs:397 to lib.rs:437
RunExecDone ==
    /\ pc = "returned"
    /\ caller = "run"
    /\ elf.type # Relocatable
    /\ IF ret # Ok
       THEN /\ run_ret' = ret
            /\ UNCHANGED stdout
       ELSE IF NoUsageExec(defined)
       THEN /\ run_ret' = ErrNoUsageExec
            /\ UNCHANGED stdout
       ELSE /\ run_ret' = Ok
            /\ stdout' = PrintRows(defined, SortedKeys(DOMAIN defined))
    /\ pc' = "exit"
    /\ UNCHANGED <<elf, caller, i, execVars, cursor, ret, objVars, passVars>>

----------------------------------------------------------------------------
(* process_symtab_obj, lib.rs:72, and analyze_object, lib.rs:119 *)

\* lib.rs:97, the rows whose name enters shndx2names
IsNamedObjSymbol(e) ==
    \/ e.ty = Func
    \/ e.ty = NoType /\ e.name # <<>> /\ ~is_tag(e.name)

\* lib.rs:105, names.entry(shndx).or_default().entry(addr).or_default().insert(name)
InsertName(m, shndx, addr, name) ==
    LET inner == IF shndx \in DOMAIN m THEN m[shndx] ELSE EmptyMap
        set == IF addr \in DOMAIN inner THEN inner[addr] ELSE {}
        inner2 == (addr :> (set \cup {name})) @@ inner
    IN  (shndx :> inner2) @@ m

\* lib.rs:155, the kinds of section data taken as relocations
IsRelocSection(kind, is64) ==
    IF is64 THEN kind \in {"Rel64", "Rela64"} ELSE kind \in {"Rel32", "Rela32"}

\* Entry of analyze_object, lib.rs:119 to lib.rs:141
ObjEnter ==
    /\ pc = "analyze_object"
    /\ IF elf.type # Relocatable
       THEN /\ ret' = ErrNotRelocatable
            /\ pc' = "returned"
            /\ UNCHANGED is_64_bit
       ELSE IF ~elf.has_symtab
       THEN /\ ret' = ErrNoSymtab
            /\ pc' = "returned"
            /\ UNCHANGED is_64_bit
       ELSE /\ ret' = Pending
            /\ pc' = "symtab_obj"
            /\ is_64_bit' = ~elf.is32
    /\ i' = 1
    /\ shndx2names' = EmptyMap
    /\ symtab2shndx' = EmptyMap
    /\ sizes' = EmptyMap
    /\ sect' = 1
    /\ relocs' = <<>>
    /\ cursor' = 0
    /\ UNCHANGED <<elf, caller, execVars, run_ret, stdout, passVars>>

\* One iteration of the loop of lib.rs:87; the index of row i is i - 1
ObjSymbol ==
    /\ pc = "symtab_obj"
    /\ i <= Len(elf.symtab)
    /\ LET e == elf.symtab[i]
           addr == ClearThumbBit(e.value)
       IN  /\ symtab2shndx' = IF e.shndx # 0
                              THEN ((i - 1) :> e.shndx) @@ symtab2shndx
                              ELSE symtab2shndx
           /\ shndx2names' = IF IsNamedObjSymbol(e)
                             THEN InsertName(shndx2names, e.shndx, addr, e.name)
                             ELSE shndx2names
    /\ i' = i + 1
    /\ UNCHANGED <<elf, caller, pc, execVars, cursor, ret, run_ret, stdout,
                   is_64_bit, sizes, sect, relocs, passVars>>

\* The loop of lib.rs:87 ends; lib.rs:143
ObjSymbolsDone ==
    /\ pc = "symtab_obj"
    /\ i > Len(elf.symtab)
    /\ pc' = "sections"
    /\ UNCHANGED <<elf, caller, i, execVars, cursor, ret, run_ret, stdout,
                   objVars, passVars>>

\* One iteration of the loop of lib.rs:145 up to the relocations: a section
\* of another name is passed over; after `.stack_sizes` the next section is
\* taken from the iterator and must hold relocations of the file's class
ObjSection ==
    /\ pc = "sections"
    /\ sect <= Len(elf.sections)
    /\ IF elf.sections[sect].name # StackSizesName
       THEN /\ sect' = sect + 1
            /\ UNCHANGED <<pc, ret, relocs, cursor, i>>
       ELSE IF /\ sect + 1 <= Len(elf.sections)
               /\ IsRelocSection(elf.sections[sect + 1].kind, is_64_bit)
       THEN /\ relocs' = elf.sections[sect + 1].rels
            /\ cursor' = 0
            /\ i' = 1
            /\ pc' = "relocs"
            /\ sect' = sect + 2
            /\ UNCHANGED ret
       ELSE /\ ret' = ErrNoRelocs
            /\ pc' = "returned"
            /\ UNCHANGED <<sect, relocs, cursor, i>>
    /\ UNCHANGED <<elf, caller, execVars, run_ret, stdout, is_64_bit,
                   shndx2names, symtab2shndx, sizes, passVars>>

\* The bytes of the `.stack_sizes` section whose relocations are gone through
ObjData == elf.sections[sect - 2].data

\* The names at `addr` in any section, whatever the relocation targets
NamesInAnySection(index, addr) ==
    UNION { shndx2names[sh][addr] :
              sh \in { x \in DOMAIN shndx2names : addr \in DOMAIN shndx2names[x] } }

\* lib.rs:186 to lib.rs:198: the names at `addr` in the section of the symbol
\* of index `index`
NamesFor(index, addr) == shndx2names[symtab2shndx[index]][addr]

\* One iteration of the loop of lib.rs:178.  The name taken from the set at
\* lib.rs:199 is its first in iteration order, which a HashSet leaves open.
ObjReloc ==
    /\ pc = "relocs"
    /\ i <= Len(relocs)
    /\ LET index == relocs[i]
           a == ReadAddress(ObjData, cursor, AddrWidth(~is_64_bit))
           s == Leb128Read(ObjData, a.pos, 0, 0)
       IN  IF ~a.ok
           THEN /\ ret' = ErrEof
                /\ pc' = "returned"
                /\ UNCHANGED <<cursor, sizes, i>>
           ELSE IF ~s.ok
           THEN /\ ret' = PanicLeb
                /\ pc' = "returned"
                /\ UNCHANGED <<cursor, sizes, i>>
           ELSE IF index \notin DOMAIN symtab2shndx
           THEN /\ ret' = PanicIndex
                /\ pc' = "returned"
                /\ cursor' = s.pos
                /\ UNCHANGED <<sizes, i>>
           ELSE IF symtab2shndx[index] \notin DOMAIN shndx2names
           THEN /\ ret' = PanicSection
                /\ pc' = "returned"
                /\ cursor' = s.pos
                /\ UNCHANGED <<sizes, i>>
           ELSE IF a.val \notin DOMAIN shndx2names[symtab2shndx[index]]
           THEN /\ ret' = PanicSymbol
                /\ pc' = "returned"
                /\ cursor' = s.pos
                /\ UNCHANGED <<sizes, i>>
           ELSE \E name \in NamesFor(index, a.val) :
                   /\ sizes' = (name :> s.val) @@ sizes
                   /\ cursor' = s.pos
                   /\ IF name \in DOMAIN sizes
                      THEN /\ ret' = PanicAssert
                           /\ pc' = "returned"
                           /\ UNCHANGED i
                      ELSE /\ i' = i + 1
                           /\ UNCHANGED <<ret, pc>>
    /\ UNCHANGED <<elf, caller, execVars, run_ret, stdout, is_64_bit,
                   shndx2names, symtab2shndx, sect, relocs, passVars>>

\* The loop of lib.rs:178 ends; lib.rs:207
ObjRelocsDone ==
    /\ pc = "relocs"
    /\ i > Len(relocs)
    /\ IF cursor # Len(ObjData)
       THEN /\ ret' = ErrCount
            /\ pc' = "returned"
       ELSE /\ pc' = "sections"
            /\ UNCHANGED ret
    /\ UNCHANGED <<elf, caller, i, execVars, cursor, run_ret, stdout, objVars,
                   passVars>>

\* The loop of lib.rs:145 ends; lib.rs:215
ObjSectionsDone ==
    /\ pc = "sections"
    /\ sect > Len(elf.sections)
    /\ ret' = Ok
    /\ pc' = "returned"
    /\ UNCHANGED <<elf, caller, i, execVars, cursor, run_ret, stdout, objVars,
                   passVars>>

\* The caller analyses the same bytes a second time
ObjAgain ==
    /\ pc = "returned"
    /\ caller = "analyze_object"
    /\ pass = 1
    /\ pass' = 2
    /\ first_ret' = ret
    /\ first_sizes' = sizes
    /\ pc' = "analyze_object"
    /\ UNCHANGED <<elf, caller, i, execVars, cursor, ret, run_ret, stdout,
                   objVars>>

----------------------------------------------------------------------------
(* Specification of run on an executable *)

InitState ==
    /\ i = 1
    /\ have_32_bit_addresses = FALSE
    /\ undefined = {}
    /\ defined = EmptyMap
    /\ maybe_aliases = EmptyMap
    /\ cursor = 0
    /\ ret = Pending
    /\ run_ret = Pending
    /\ stdout = <<>>
    /\ is_64_bit = FALSE
    /\ shndx2names = EmptyMap
    /\ symtab2shndx = EmptyMap
    /\ sizes = EmptyMap
    /\ sect = 1
    /\ relocs = <<>>
    /\ pass = 1
    /\ first_ret = Pending
    /\ first_sizes = EmptyMap

\* Relocatable files handed to analyze_executable by a caller of the library
IsRelocatableElf(e) ==
    \E is32 \in BOOLEAN :
        \E st \in SeqsUpTo(ExecFuncs, 1) :
           \E ss \in {<<>>} \cup { << Section(StackSizesName, "Other",
                                              EncodeRecords(<<r>>, AddrWidth(is32)), <<>>) >> :
                                     r \in Records } :
              e = Elf(Relocatable, is32, TRUE, st, ss)

Init ==
    /\ \/ /\ IsExecElf(elf)
          /\ caller = "run"
          /\ pc = "run"
       \/ /\ IsRelocatableElf(elf)
          /\ caller = "analyze_executable"
          /\ pc = "analyze_executable"
    /\ InitState

Next ==
    \/ RunExecutable
    \/ ExecEnter
    \/ ExecSymbol
    \/ ExecSymbolsDone
    \/ ExecAlias
    \/ ExecAliasesDone
    \/ ExecFindStackSizes
    \/ ExecRecord
    \/ ExecRecordsDone
    \/ RunExecDone

Spec == Init /\ [][Next]_vars

----------------------------------------------------------------------------
(* Specification of run on executables whose symbol table is varied *)

IsExecSymElf(e) ==
    \E st \in SeqsUpTo(ExecSymbols, MaxSyms) :
        \E ss \in { <<>>,
                    << Section(StackSizesName, "Other",
                               EncodeRecords(<< [address |-> 2, stack |-> 200] >>,
                                             AddrWidth(TRUE)), <<>>) >> } :
           e = Elf(Executable, TRUE, TRUE, st, ss)

InitSymtab ==
    /\ IsExecSymElf(elf)
    /\ caller = "run"
    /\ pc = "run"
    /\ InitState

SpecSymtab == InitSymtab /\ [][Next]_vars

----------------------------------------------------------------------------
(* Specification of two calls of analyze_object on the same file *)

\* Rows of the symbol table of an object file: the section symbol of section
\* 1, two names at address 0 of section 1 (the value of the second has the
\* low bit set), a function at address 4 of section 1, a function of section
\* 2, an external function, a tag
ObjSymbols ==
    { Sym(Object, 0, 0, <<>>, 1),
      Sym(Func, 0, 4, <<"f">>, 1),
      Sym(NoType, 1, 0, <<"g">>, 1),
      Sym(Func, 4, 4, <<"h">>, 1),
      Sym(Func, 0, 4, <<"k">>, 2),
      Sym(Func, 0, 0, <<"x">>, 0),
      Sym(NoType, 0, 0, <<"$", "t">>, 2) }

ObjRecords ==
    { [address |-> 0, stack |-> 8],
      [address |-> 4, stack |-> 200] }

\* The indices a relocation may name: those of the rows
RelocIndices == 0..(MaxObjSyms - 1)

ObjStackSizes(is32, recs) ==
    Section(StackSizesName, "Other", EncodeRecords(recs, AddrWidth(is32)), <<>>)

RelSection(kind, rels) == Section(".rel.stack_sizes", kind, <<>>, rels)

TextSection == Section(".text", "Other", <<>>, <<>>)

\* The relocation kind of a class
RelKind(is32) == IF is32 THEN "Rel32" ELSE "Rela64"

\* Object files of class 32: `.text`, `.stack_sizes` and its relocations
IsObjElf32(e) ==
    \E st \in SeqsUpTo(ObjSymbols, MaxObjSyms) :
        \E recs \in SeqsUpTo(ObjRecords, MaxObjRecs) :
           \E rels \in SeqsUpTo(RelocIndices, MaxRelocs) :
              e = Elf(Relocatable, TRUE, TRUE, st,
                      <<TextSection, ObjStackSizes(TRUE, recs), RelSection("Rel32", rels)>>)

\* Object files of either class: with one relocation of any kind, with no
\* section or another one after `.stack_sizes`, with two `.stack_sizes`
\* sections, without `.symtab`; and files that are not relocatable
IsObjElfOther(e) ==
    \E is32 \in BOOLEAN :
        \E st \in SeqsUpTo(ObjSymbols, MaxObjSyms) :
           \E recs \in SeqsUpTo(ObjRecords, 1) :
              \/ \E kind \in {"Rel32", "Rela32", "Rel64", "Rela64"} :
                    e = Elf(Relocatable, is32, TRUE, st,
                            <<ObjStackSizes(is32, recs), RelSection(kind, <<0>>)>>)
              \/ e = Elf(Relocatable, is32, TRUE, st, <<ObjStackSizes(is32, recs)>>)
              \/ e = Elf(Relocatable, is32, TRUE, st,
                         <<ObjStackSizes(is32, recs), TextSection>>)
              \/ e = Elf(Relocatable, is32, TRUE, st,
                         <<ObjStackSizes(is32, recs), RelSection(RelKind(is32), <<0>>),
                           ObjStackSizes(is32, recs), RelSection(RelKind(is32), <<1>>)>>)
              \/ e = Elf(Relocatable, is32, FALSE, <<>>, <<>>)
              \/ e = Elf(Executable, is32, TRUE, st,
                         <<ObjStackSizes(is32, recs), RelSection(RelKind(is32), <<0>>)>>)

InitObj ==
    /\ IsObjElf32(elf) \/ IsObjElfOther(elf)
    /\ caller = "analyze_object"
    /\ pc = "analyze_object"
    /\ InitState

NextObj ==
    \/ ObjEnter
    \/ ObjSymbol
    \/ ObjSymbolsDone
    \/ ObjSection
    \/ ObjReloc
    \/ ObjRelocsDone
    \/ ObjSectionsDone
    \/ ObjAgain

SpecObj == InitObj /\ [][NextObj]_vars

----------------------------------------------------------------------------
(* Properties of analyze_executable and run *)

\* The bytes of the section analyze_executable decodes
StackSizesData == FindStackSizes(elf.sections)[1].data

\* The address and the stack of the record at the cursor
AddressAtCursor ==
    ReadAddress(StackSizesData, cursor, AddrWidth(have_32_bit_addresses))
StackAtCursor == Leb128Read(StackSizesData, AddressAtCursor.pos, 0, 0)

\* A whole record lies at the cursor and the loop of lib.rs:297 decodes it
DecodesRecord ==
    /\ pc = "decode"
    /\ cursor < Len(StackSizesData)
    /\ AddressAtCursor.ok
    /\ StackAtCursor.ok

\* The functions a step has changed
ChangedFunctions ==
    { a \in DOMAIN defined : a \notin DOMAIN defined' \/ defined'[a] # defined[a] }

\* C1: Thumb-bit symmetry in analyze_executable.  For an even address A,
\* when the only function among the keys A and A+1 is at A+1, a record at A
\* sets its stack; when the only one is at A, a record at A+1 sets its
\* stack; a record changes at most one function and creates none.
C1_ThumbSymmetry ==
    [][ DecodesRecord =>
          LET r == AddressAtCursor.val
              A == ClearThumbBit(r)
              v == Some(StackAtCursor.val)
          IN  /\ DOMAIN defined' = DOMAIN defined
              /\ Cardinality(ChangedFunctions) <= 1
              /\ (r = A /\ A + 1 \in DOMAIN defined /\ A \notin DOMAIN defined)
                    => defined'[A + 1].stack = v
              /\ (r = A + 1 /\ A \in DOMAIN defined /\ A + 1 \notin DOMAIN defined)
                    => defined'[A].stack = v
      ]_vars

\* C1 witness: the analysis is over, the only function of the pair {2, 3} is
\* at 3 and the single record, at address 2, has set its stack.
C1_Witness ==
    /\ ret = Ok
    /\ FindStackSizes(elf.sections) # None
    /\ 3 \in DOMAIN defined /\ 2 \notin DOMAIN defined
    /\ StackSizesData = EncodeRecords(<< [address |-> 2, stack |-> 200] >>,
                                      AddrWidth(have_32_bit_addresses))
    /\ defined[3].stack = Some(200)

\* C3: in analyze_executable a record whose address matches no function,
\* with the low bit set or cleared, makes the analysis return an error.
C3_UnmatchedRecordIsError ==
    [][ ( /\ DecodesRecord
          /\ SetThumbBit(AddressAtCursor.val) \notin DOMAIN defined
          /\ ClearThumbBit(AddressAtCursor.val) \notin DOMAIN defined )
        => IsErr(ret') ]_vars

\* The names of the Func rows among the first n rows that are defined at v,
\* in the order of the table
RECURSIVE FuncNamesAt(_, _, _)
FuncNamesAt(symtab, v, n) ==
    IF n = 0 THEN <<>>
    ELSE LET e == symtab[n]
         IN  FuncNamesAt(symtab, v, n - 1)
             \o (IF e.ty = Func /\ e.value = v /\ ~(e.value = 0 /\ e.size = 0)
                 THEN <<e.name>> ELSE <<>>)

Elems(s) == { s[k] : k \in 1..Len(s) }

\* The rows of the symbol table the loop of lib.rs:229 has been through
RowsDone ==
    IF pc \in {"run", "analyze_executable"} \/ ~elf.has_symtab THEN 0
    ELSE IF pc = "symtab" THEN i - 1
    ELSE Len(elf.symtab)

\* A name of the kind the section `Tag name` of the documentation describes:
\* $a, $t, $d, or one of them, a '.', and a decimal numeral
IsTagName(name) ==
    \/ \E c \in TagLetters : name = <<"$", c>>
    \/ /\ Len(name) > 3
       /\ \E c \in TagLetters : SubSeq(name, 1, 3) = <<"$", c, ".">>
       /\ \A k \in 4..Len(name) : name[k] \in Digits

\* C5: in the executable path, once the aliases are merged, every NoType
\* symbol with a name that is no tag and at the address of a Func symbol is
\* among the names of the function at that address, and no tag name is among
\* the names of any function.
C5_AliasInclusion ==
    pc \in {"stack_sizes", "decode", "returned", "exit"} =>
        /\ \A k \in 1..Len(elf.symtab) :
              LET e == elf.symtab[k]
              IN  ( /\ e.ty = NoType
                    /\ ~IsTagName(e.name)
                    /\ e.value \in DOMAIN defined )
                  => e.name \in Elems(defined[e.value].names)
        /\ \A a \in DOMAIN defined :
              \A n \in Elems(defined[a].names) : ~IsTagName(n)

\* C6: in the executable path, a Func symbol with value 0 and size 0 has its
\* name in undefined and neither creates nor extends an entry of defined; any
\* other Func symbol has its name among the names of defined[value] and is
\* not added to undefined.  So, after n rows, undefined holds exactly the
\* names of the first kind, the keys of defined are exactly the values of
\* the second kind, and the names of a function start with exactly the names
\* of its Func symbols (what follows are merged aliases).
C6_UndefinedClassification ==
    LET n == RowsDone
        st == elf.symtab
        undef == { k \in 1..n : st[k].ty = Func /\ st[k].value = 0 /\ st[k].size = 0 }
        def == { k \in 1..n : st[k].ty = Func /\ ~(st[k].value = 0 /\ st[k].size = 0) }
    IN  /\ undefined = { st[k].name : k \in undef }
        /\ DOMAIN defined = { st[k].value : k \in def }
        /\ \A v \in DOMAIN defined :
              /\ StartsWith(defined[v].names, FuncNamesAt(st, v, n))
              /\ pc = "symtab" => defined[v].names = FuncNamesAt(st, v, n)

\* C6 witness: the table held a Func symbol of each kind at address 0, and
\* both are classified.
C6_Witness ==
    /\ pc = "exit"
    /\ <<"u">> \in undefined
    /\ 0 \in DOMAIN defined
    /\ defined[0].names = << <<"z">> >>

\* The functions of S by descending stack value, ties by ascending address
RECURSIVE ByStackThenAddress(_, _)
ByStackThenAddress(d, S) ==
    IF S = {} THEN <<>>
    ELSE LET m == CHOOSE a \in S : \A b \in S \ {a} :
                      \/ d[a].stack[1] > d[b].stack[1]
                      \/ d[a].stack[1] = d[b].stack[1] /\ a < b
         IN  <<m>> \o ByStackThenAddress(d, S \ {m})

\* The order C8 states: the functions with a stack value by descending
\* stack, ties by ascending address, then those without one by address
StatedOrder(d) ==
    LET with == { a \in DOMAIN d : d[a].stack # None }
    IN  ByStackThenAddress(d, with) \o SortedKeys((DOMAIN d) \ with)

RowAddresses == [ k \in 1..Len(stdout) |-> stdout[k].addr ]

\* C8, as stated: the functions of an executable are output with those
\* carrying a stack value first, by descending stack value and then by
\* ascending address, followed by those without a stack value by address.
C8_StatedOrder ==
    (pc = "exit" /\ run_ret = Ok) => RowAddresses = StatedOrder(defined)

\* C8, amended: the functions of an executable that carry a stack value are
\* output in ascending order of address, whatever their stack values, each
\* with its stack value and its first name; those without a stack value are
\* not output.
C8_AddressOrder ==
    (pc = "exit" /\ run_ret = Ok) =>
        /\ \A k \in 1..Len(stdout) - 1 : stdout[k].addr < stdout[k + 1].addr
        /\ Elems(RowAddresses) = { a \in DOMAIN defined : defined[a].stack # None }
        /\ \A k \in 1..Len(stdout) :
              /\ Some(stdout[k].stack) = defined[stdout[k].addr].stack
              /\ stdout[k].name = Head(defined[stdout[k].addr].names)

\* C8 witness: two rows are printed, the one of the lower address first
\* although its stack value is the smaller.
C8_Witness ==
    /\ pc = "exit" /\ run_ret = Ok
    /\ Len(stdout) = 2
    /\ stdout[1].stack < stdout[2].stack

\* C9: without a `.stack_sizes` section analyze_executable succeeds with no
\* stack value in any function and run reports `no stack usage information`;
\* run does not report it when some function has a stack value, be it 0.
C9_NoUsage ==
    /\ (pc \in {"returned", "exit"} /\ FindStackSizes(elf.sections) = None) =>
          /\ ret = Ok
          /\ \A a \in DOMAIN defined : defined[a].stack = None
    /\ (pc = "exit" /\ FindStackSizes(elf.sections) = None) =>
          run_ret = ErrNoUsageExec
    /\ (pc = "exit" /\ \E a \in DOMAIN defined : defined[a].stack # None) =>
          run_ret # ErrNoUsageExec
    /\ (pc = "exit" /\ ret = Ok /\ \E a \in DOMAIN defined : defined[a].stack # None) =>
          run_ret = Ok

\* C9 witness: run is over on an executable with functions and no
\* `.stack_sizes` section.
C9_Witness ==
    /\ pc = "exit"
    /\ FindStackSizes(elf.sections) = None
    /\ Cardinality(DOMAIN defined) = 2
    /\ run_ret = ErrNoUsageExec

\* The bytes of s are whole records of the given address width
RECURSIVE WholeRecords(_, _)
WholeRecords(s, width) ==
    \/ s = <<>>
    \/ /\ Len(s) > width
       /\ \E n \in 1..(Len(s) - width) :
             /\ \A k \in 1..(n - 1) : s[width + k] >= ContinuationBit
             /\ s[width + n] < ContinuationBit
             /\ WholeRecords(SubSeq(s, width + n + 1, Len(s)), width)

\* C10: analyze_executable rejects with an error a `.stack_sizes` section
\* whose bytes end in the middle of a record, and an analysis that succeeds
\* has consumed every byte of the section.
C10_Exhaustive ==
    (pc \in {"returned", "exit"} /\ FindStackSizes(elf.sections) # None) =>
        /\ ~WholeRecords(StackSizesData, AddrWidth(have_32_bit_addresses)) => IsErr(ret)
        /\ ret = Ok => cursor = Len(StackSizesData)

----------------------------------------------------------------------------
(* Properties of analyze_object *)

\* The records of whole-record bytes, in order
RECURSIVE DecodeAll(_, _)
DecodeAll(data, width) ==
    IF data = <<>> THEN <<>>
    ELSE LET a == ReadAddress(data, 0, width)
             s == Leb128Read(data, a.pos, 0, 0)
         IN  << [address |-> a.val, stack |-> s.val] >>
             \o DecodeAll(SubSeq(data, s.pos + 1, Len(data)), width)

\* An iteration of the loop of lib.rs:178 that stores a stack value
StoresRecord == pc = "relocs" /\ i <= Len(relocs) /\ i' = i + 1

\* C2, as stated: in analyze_object the stack value of the i-th record is
\* stored under the name of the symbol the i-th relocation targets, whatever
\* the address field of the record.
C2_TargetSymbolName ==
    [][ StoresRecord =>
          LET rec == DecodeAll(ObjData, AddrWidth(elf.is32))[i]
              target == elf.symtab[relocs[i] + 1]
          IN  sizes' = (target.name :> rec.stack) @@ sizes
      ]_vars

\* C2, amended: in analyze_object the stack value of the i-th record is
\* stored under the name of a symbol (a Func symbol, or a NoType symbol with
\* a name that is not empty and no tag) that lies in the section of the
\* symbol the i-th relocation targets and whose value, low bit cleared, is
\* the address field of the i-th record; the name depends on that field and
\* need not be a name of the targeted symbol.
C2_SectionAddressName ==
    [][ StoresRecord =>
          LET rec == DecodeAll(ObjData, AddrWidth(elf.is32))[i]
              target == elf.symtab[relocs[i] + 1]
          IN  \E k \in 1..Len(elf.symtab) :
                 LET e == elf.symtab[k]
                 IN  /\ e.shndx = target.shndx
                     /\ ClearThumbBit(e.value) = rec.address
                     /\ \/ e.ty = Func
                        \/ e.ty = NoType /\ e.name # <<>> /\ ~IsTagName(e.name)
                     /\ e.name \notin DOMAIN sizes
                     /\ sizes' = (e.name :> rec.stack) @@ sizes
      ]_vars

\* C2 witness: both relocations target f, the records have the addresses of
\* f and of h, and the table holds the second stack value under h.
C2_Witness ==
    /\ ret = Ok
    /\ elf.symtab = << Sym(Func, 0, 4, <<"f">>, 1), Sym(Func, 4, 4, <<"h">>, 1) >>
    /\ relocs = <<0, 0>>
    /\ sizes = (<<"f">> :> 8) @@ (<<"h">> :> 200)

\* A `.stack_sizes` section is followed by a relocation section of the file's
\* class that has more or fewer entries than the section has records
CountMismatch ==
    \E k \in 1..(Len(elf.sections) - 1) :
        /\ elf.sections[k].name = StackSizesName
        /\ IsRelocSection(elf.sections[k + 1].kind, ~elf.is32)
        /\ Len(DecodeAll(elf.sections[k].data, AddrWidth(elf.is32)))
              # Len(elf.sections[k + 1].rels)

\* C4: analyze_object returns an error, and no table, whenever the number of
\* records of a `.stack_sizes` section differs from the number of entries of
\* the relocation section that follows it.
C4_CountMismatchIsError ==
    (pc = "returned" /\ CountMismatch) => IsErr(ret)

\* C7: two analyses of the same input have the same output; for
\* analyze_object the name that keys a stack value is the same in both.
C7_Deterministic ==
    (pc = "returned" /\ pass = 2) =>
        /\ ret = first_ret
        /\ ret = Ok => sizes = first_sizes

----------------------------------------------------------------------------
(* Properties of the check of the file type *)

\* C11: analyze_object fails with an error of unsupported format on a file
\* that is not relocatable, and analyze_executable fails with such an error
\* on a relocatable file.
C11_UnsupportedFormat ==
    pc = "returned" =>
        /\ (caller = "analyze_object" /\ elf.type # Relocatable)
              => ret = ErrNotRelocatable
        /\ (caller = "analyze_executable" /\ elf.type = Relocatable)
              => IsErr(ret)

----------------------------------------------------------------------------
(* Properties of the names of a function *)

\* The bytes of the characters of the names of the symbols above
CharCode ==
    ("$" :> 36) @@ ("." :> 46) @@ ("3" :> 51) @@ ("a" :> 97) @@ ("d" :> 100)
    @@ ("f" :> 102) @@ ("g" :> 103) @@ ("h" :> 104) @@ ("o" :> 111)
    @@ ("t" :> 116) @@ ("u" :> 117) @@ ("z" :> 122)

\* a < b in the order of str, the lexicographic order of the bytes
RECURSIVE NameLess(_, _)
NameLess(a, b) ==
    IF b = <<>> THEN FALSE
    ELSE IF a = <<>> THEN TRUE
    ELSE IF CharCode[a[1]] # CharCode[b[1]] THEN CharCode[a[1]] < CharCode[b[1]]
    ELSE NameLess(Tail(a), Tail(b))

\* analyze_executable has returned its map (process_symtab_exec is over)
SymtabProcessed == pc \in {"stack_sizes", "decode", "returned", "exit"}

\* C12 as stated: for every Function of the defined map of
\* analyze_executable, names has no duplicate entry and is in sorted order.
C12_SortedNoDuplicates ==
    SymtabProcessed =>
        \A v \in DOMAIN defined :
            LET names == defined[v].names
            IN  \A j, k \in 1..Len(names) : j < k => NameLess(names[j], names[k])

\* The names of the NoType rows of value w that are no tags, in the order of
\* the table: the alias group of w
RECURSIVE AliasNamesAt(_, _, _)
AliasNamesAt(symtab, w, n) ==
    IF n = 0 THEN <<>>
    ELSE LET e == symtab[n]
         IN  AliasNamesAt(symtab, w, n - 1)
             \o (IF e.ty = NoType /\ e.value = w /\ ~is_tag(e.name)
                 THEN <<e.name>> ELSE <<>>)

\* The alias group of w, if it is the function at v that it is merged into:
\* the one at w with the low bit set, or else the one at w with it cleared
GroupMergedInto(v, w) ==
    IF \/ SetThumbBit(w) = v
       \/ SetThumbBit(w) \notin DOMAIN defined /\ ClearThumbBit(w) = v
    THEN AliasNamesAt(elf.symtab, w, Len(elf.symtab))
    ELSE <<>>

\* C12, amended: for every Function of the defined map of
\* analyze_executable, names is the names of the Func symbols at its key, in
\* the order of the symbol table, followed by the alias groups merged into
\* it, in ascending order of their value and each in the order of the table.
\* A name that is several times in the table is as many times in names, and
\* names need not be sorted.
C12_TableOrder ==
    (SymtabProcessed /\ elf.has_symtab) =>
        \A v \in DOMAIN defined :
            defined[v].names =
                FuncNamesAt(elf.symtab, v, Len(elf.symtab))
                \o GroupMergedInto(v, ClearThumbBit(v))
                \o GroupMergedInto(v, SetThumbBit(v))

\* C12 witness: the table held Func f at 2 twice and NoType a at 2; the
\* alias is merged, and the names of the function are neither sorted nor
\* without duplicates.
C12_Witness ==
    /\ pc = "exit"
    /\ 2 \in DOMAIN defined
    /\ defined[2].names = << <<"f">>, <<"f">>, <<"a">> >>

----------------------------------------------------------------------------
(* Properties of the keys and sizes of the map *)

\* The rows of the table that are Func symbols defined at v
DefinedFuncRows(symtab, v) ==
    { k \in 1..Len(symtab) :
        /\ symtab[k].ty = Func
        /\ symtab[k].value = v
        /\ ~(symtab[k].value = 0 /\ symtab[k].size = 0) }

\* The alias groups are being merged, or the records decoded
MergingOrDecoding == pc \in {"aliases", "stack_sizes", "decode"}

\* C13: in analyze_executable, a step of the merging of the alias groups or
\* of the decoding of the records adds no key to defined and removes none,
\* changes the size of no function, and changes at most one function; and
\* from the end of the scan of the symbol table on, the keys of defined are
\* exactly the values of the Func symbols that are not (value 0, size 0) and
\* the size of each function is that of the first Func symbol at its key in
\* the order of the table.
C13_KeysAndSizesFrame ==
    [][ /\ MergingOrDecoding =>
              /\ DOMAIN defined' = DOMAIN defined
              /\ \A v \in DOMAIN defined : defined'[v].size = defined[v].size
              /\ Cardinality(ChangedFunctions) <= 1
        /\ (elf.has_symtab /\ pc' \in {"aliases", "stack_sizes", "decode", "returned", "exit"}) =>
              /\ DOMAIN defined' =
                    { v \in 0..AddrLimit : DefinedFuncRows(elf.symtab, v) # {} }
              /\ \A v \in DOMAIN defined' :
                    defined'[v].size
                        = elf.symtab[Min(DefinedFuncRows(elf.symtab, v))].size
      ]_vars

\* C13 witness: the table held Func f of size 4 and Func g of size 6 at 2
\* and the alias a at 2; the alias is merged and the record at 2 is
\* aggregated, and the function has the size of f.
C13_Witness ==
    /\ pc = "exit"
    /\ DOMAIN defined = {2}
    /\ defined[2] = Function(<< <<"f">>, <<"g">>, <<"a">> >>, 4, Some(200))

====
